---- MODULE Spec2Model ----
(***************************************************************************)
(* KuGame progression and encounter engine: Player (player.py),            *)
(* GameEngine (game_engine.py), StoryManager (story.py) and the combat     *)
(* loop of the command line (cli.py).                                      *)
(*                                                                         *)
(* Strings of the source that are not ASCII are transliterated.  The       *)
(* command catalog and the chapters' command pools are data: commands are  *)
(* numbered 1..NumCommands.  Floats are kept as integers: sect_bonus in    *)
(* hundredths, score in tenths.                                            *)
(***************************************************************************)
EXTENDS Integers, Sequences, FiniteSets, TLC

VARIABLES player, commands, story_chapter, streak, score, current_challenge,
          current_monster, monster_current_health, files, cli_monster, result

vars == <<player, commands, story_chapter, streak, score, current_challenge,
          current_monster, monster_current_health, files, cli_monster, result>>

----------------------------------------------------------------------------
(* Bounds of the model *)

NumCommands == 5

CatalogSize == 2

NumChallengeIds == 1

MaxAttempts == 4

MaxLevel == 6

MaxWrong == 1

MaxStreak == 4

MaxPlayerAttempts == 5

MaxLearn == 2
\* answers evaluated, and the streak they may build, where profiles are saved and loaded
MaxSavedAttempts == 5
\* streak and level up to which attacks are made in combat
MaxCombatStreak == 2
MaxCombatLevel == 2
\* streak and level up to which answers are given in a long run of correct answers
MaxScoreStreak == 100
MaxScoreLevel == 15
\* level up to which a saved profile is loaded
MaxSavedLevel == 8

----------------------------------------------------------------------------
(* Generic helpers *)

Min(a, b) == IF a < b THEN a ELSE b

Max(a, b) == IF a > b THEN a ELSE b

RECURSIVE Pow(_, _)
Pow(b, n) == IF n = 0 THEN 1 ELSE b * Pow(b, n - 1)

RECURSIVE Pow2Floor(_)
Pow2Floor(n) == IF n < 2 THEN 1 ELSE 2 * Pow2Floor(n \div 2)

SeqToSet(s) == {s[i] : i \in 1..Len(s)}

Contains(s, x) == \E i \in 1..Len(s) : s[i] = x

IndexOf(s, x) == CHOOSE i \in 1..Len(s) : s[i] = x /\ \A j \in 1..(i - 1) : s[j] # x

RECURSIVE SetToSeq(_)
SetToSeq(S) == IF S = {} THEN <<>>
               ELSE LET m == CHOOSE x \in S : \A y \in S : x <= y
                    IN <<m>> \o SetToSeq(S \ {m})

Perms(n) == {f \in [1..n -> 1..n] : \A i, j \in 1..n : f[i] = f[j] => i = j}

Permute(s, f) == [i \in 1..Len(s) |-> s[f[i]]]

----------------------------------------------------------------------------
(* player.py: enums and tables *)

Sects == {"qingyun", "xuantian", "lianyu", "xiaoyao"}

SectBonusOf(sect) == CASE sect = "qingyun" -> 110
                     [] sect = "xuantian" -> 100
                     [] sect = "lianyu" -> 120
                     [] sect = "xiaoyao" -> 115
                     [] OTHER -> 100

DefaultSectBonus == 100

DefaultHealth == 100

DefaultMaxHealth == 100

DefaultAttack == 10

DefaultDefense == 5

LearnCommandExp == 50

CompleteChallengeExp == 100

CultivationRanks == 1..10

Achievements == <<
  [id |-> "cmd_master_10",   type |-> "command_mastery",      condition |-> 10,  experience |-> 500,   title |-> "title_cmd_master_10"],
  [id |-> "cmd_master_30",   type |-> "command_mastery",      condition |-> 30,  experience |-> 1500,  title |-> "title_cmd_master_30"],
  [id |-> "cmd_master_50",   type |-> "command_mastery",      condition |-> 50,  experience |-> 3000,  title |-> "title_cmd_master_50"],
  [id |-> "cmd_master_all",  type |-> "command_mastery",      condition |-> 100, experience |-> 10000, title |-> "title_cmd_master_all"],
  [id |-> "story_chapter_3", type |-> "story_progress",       condition |-> 3,   experience |-> 1000,  title |-> "title_story_chapter_3"],
  [id |-> "story_chapter_6", type |-> "story_progress",       condition |-> 6,   experience |-> 2500,  title |-> "title_story_chapter_6"],
  [id |-> "story_chapter_9", type |-> "story_progress",       condition |-> 9,   experience |-> 5000,  title |-> "title_story_chapter_9"],
  [id |-> "challenge_10",    type |-> "challenge_completion", condition |-> 10,  experience |-> 800,   title |-> "title_challenge_10"],
  [id |-> "challenge_50",    type |-> "challenge_completion", condition |-> 50,  experience |-> 4000,  title |-> "title_challenge_50"],
  [id |-> "streak_5",        type |-> "streak_success",       condition |-> 5,   experience |-> 300,   title |-> "title_streak_5"],
  [id |-> "streak_10",       type |-> "streak_success",       condition |-> 10,  experience |-> 800,   title |-> "title_streak_10"],
  [id |-> "streak_20",       type |-> "streak_success",       condition |-> 20,  experience |-> 2000,  title |-> "title_streak_20"]
>>

AchievementIds == {Achievements[i].id : i \in 1..Len(Achievements)}

AchievementById(id) == Achievements[CHOOSE i \in 1..Len(Achievements) : Achievements[i].id = id]

----------------------------------------------------------------------------
(* player.py: leveling *)

\* int(exp * self.sect_bonus): the product is a double, so with the bonus
\* 1.15 (stored as 1.15 - 0.8 * 2^-53) an exact integer product 23*exp/20
\* whose significand exceeds 1.4375 is rounded to the double below it and
\* truncates to one less; 1.1 and 1.2 never lose a unit.
ApplySectBonus(exp, bonus) ==
  CASE bonus = 100 -> exp
    [] bonus = 110 -> (exp * 11) \div 10
    [] bonus = 120 -> (exp * 12) \div 10
    [] bonus = 115 -> LET n == (23 * exp) \div 20
                      IN IF (23 * exp) % 20 = 0 /\ 16 * n > 23 * Pow2Floor(n)
                         THEN n - 1 ELSE n
    [] OTHER -> exp

_calculate_required_exp(level) == (100 * Pow(3, level - 1)) \div Pow(2, level - 1)

\* a variant that derives the rank from the level without the highest tier
\* as its limit
_update_cultivation_uncapped(p) == [p EXCEPT !.cultivation = (p.level - 1) \div 10 + 1]

_update_cultivation(p) ==
  LET r == CHOOSE c \in CultivationRanks :
              /\ p.level >= c * 10 - 9
              /\ \A d \in CultivationRanks : d > c => p.level < d * 10 - 9
  IN [p EXCEPT !.cultivation = r]

\* level_up with "if" in place of "while": a single level per call
level_up_once(p) ==
  IF p.experience >= _calculate_required_exp(p.level)
  THEN _update_cultivation(
         [p EXCEPT !.experience = @ - _calculate_required_exp(p.level),
                   !.level = @ + 1])
  ELSE p

RECURSIVE level_up(_)
level_up(p) ==
  IF p.experience >= _calculate_required_exp(p.level)
  THEN level_up(_update_cultivation(
         [p EXCEPT !.experience = @ - _calculate_required_exp(p.level),
                   !.level = @ + 1]))
  ELSE p

\* gain_experience adding the amount without the sect bonus
gain_experience_unscaled(p, exp) ==
  LET p1 == [p EXCEPT !.experience = @ + exp]
  IN IF p1.experience >= _calculate_required_exp(p1.level) THEN level_up(p1) ELSE p1

gain_experience(p, exp) ==
  LET p1 == [p EXCEPT !.experience = @ + ApplySectBonus(exp, p.sect_bonus)]
  IN IF p1.experience >= _calculate_required_exp(p1.level) THEN level_up(p1) ELSE p1

gain_experience_ret(p, exp) ==
  p.experience + ApplySectBonus(exp, p.sect_bonus) >= _calculate_required_exp(p.level)

----------------------------------------------------------------------------
(* player.py: achievements *)

\* int(self.current_chapter.split("di")[1].split("zhang")[0]): only an
\* identifier of the form "di<N>zhang" parses; the initial "xuzhang" and the
\* Chapter values ("prologue", "chapter_N", "epilogue") raise IndexError,
\* which the caller swallows.  -1 stands for the swallowed error.
ParseChapterNum(chapter) ==
  CASE chapter = "di3zhang" -> 3
    [] chapter = "di6zhang" -> 6
    [] chapter = "di9zhang" -> 9
    [] OTHER -> -1

\* a variant of the conditions that asks for more than the condition value
AchievementConditionStrict(p, a) ==
  CASE a.type = "command_mastery" -> Len(p.kubectl_commands_mastered) > a.condition
    [] a.type = "story_progress" ->
         ParseChapterNum(p.current_chapter) # -1
         /\ ParseChapterNum(p.current_chapter) > a.condition
    [] a.type = "challenge_completion" -> Len(p.challenges_completed) > a.condition
    [] a.type = "streak_success" -> p.streak > a.condition
    [] OTHER -> FALSE

AchievementCondition(p, a) ==
  CASE a.type = "command_mastery" -> Len(p.kubectl_commands_mastered) >= a.condition
    [] a.type = "story_progress" ->
         ParseChapterNum(p.current_chapter) # -1
         /\ ParseChapterNum(p.current_chapter) >= a.condition
    [] a.type = "challenge_completion" -> Len(p.challenges_completed) >= a.condition
    [] a.type = "streak_success" -> p.streak >= a.condition
    [] OTHER -> FALSE

\* unlock_achievement without the "not achievement.unlocked" test
unlock_achievement_unguarded(p, achievement_id) ==
  IF achievement_id \in AchievementIds
  THEN LET a == AchievementById(achievement_id)
           p1 == [p EXCEPT !.unlocked = @ \cup {achievement_id},
                           !.achievements = Append(@, achievement_id)]
           p2 == gain_experience(p1, a.experience)
       IN [p2 EXCEPT !.custom_titles = Append(@, a.title)]
  ELSE p

unlock_achievement(p, achievement_id) ==
  IF achievement_id \in AchievementIds /\ achievement_id \notin p.unlocked
  THEN LET a == AchievementById(achievement_id)
           p1 == [p EXCEPT !.unlocked = @ \cup {achievement_id},
                           !.achievements = Append(@, achievement_id)]
           p2 == gain_experience(p1, a.experience)
       IN [p2 EXCEPT !.custom_titles = Append(@, a.title)]
  ELSE p

unlock_achievement_ret(p, achievement_id) ==
  achievement_id \in AchievementIds /\ achievement_id \notin p.unlocked

\* The loop of check_and_unlock_achievements from position i on; acc is the
\* pair of the profile and the names unlocked so far (ids stand for names).
RECURSIVE CheckFrom(_, _)
CheckFrom(acc, i) ==
  IF i > Len(Achievements) THEN acc
  ELSE LET a == Achievements[i]
       IN IF a.id \notin acc.p.unlocked /\ AchievementCondition(acc.p, a)
          THEN CheckFrom([p |-> unlock_achievement(acc.p, a.id),
                          names |-> Append(acc.names, a.id)], i + 1)
          ELSE CheckFrom(acc, i + 1)

check_and_unlock_achievements(p) == CheckFrom([p |-> p, names |-> <<>>], 1).p

check_and_unlock_achievements_ret(p) == CheckFrom([p |-> p, names |-> <<>>], 1).names

\* a variant of update_streak that counts the correct answers only
update_streak_correct_only(p, correct) ==
  LET p1 == IF correct
            THEN [p EXCEPT !.streak = @ + 1, !.total_correct = @ + 1, !.total_attempts = @ + 1]
            ELSE [p EXCEPT !.streak = 0]
  IN check_and_unlock_achievements(p1)

update_streak(p, correct) ==
  LET p1 == IF correct
            THEN [p EXCEPT !.streak = @ + 1, !.total_correct = @ + 1]
            ELSE [p EXCEPT !.streak = 0]
      p2 == [p1 EXCEPT !.total_attempts = @ + 1]
  IN check_and_unlock_achievements(p2)

\* learn_command without the test that the command is new
learn_command_unguarded(p, command) ==
  gain_experience([p EXCEPT !.kubectl_commands_mastered = Append(@, command)],
                  LearnCommandExp)

\* learn_command assigning the list instead of appending to it
learn_command_overwrite(p, command) ==
  IF ~Contains(p.kubectl_commands_mastered, command)
  THEN gain_experience([p EXCEPT !.kubectl_commands_mastered = <<command>>],
                       LearnCommandExp)
  ELSE p

learn_command(p, command) ==
  IF ~Contains(p.kubectl_commands_mastered, command)
  THEN gain_experience([p EXCEPT !.kubectl_commands_mastered = Append(@, command)],
                       LearnCommandExp)
  ELSE p

\* a variant that records the challenge without crediting experience
complete_challenge_unrewarded(p, challenge_id) ==
  IF ~Contains(p.challenges_completed, challenge_id)
  THEN [p EXCEPT !.challenges_completed = Append(@, challenge_id)]
  ELSE p

complete_challenge(p, challenge_id) ==
  IF ~Contains(p.challenges_completed, challenge_id)
  THEN gain_experience([p EXCEPT !.challenges_completed = Append(@, challenge_id)],
                       CompleteChallengeExp)
  ELSE p

reset_progress(p) ==
  [p EXCEPT !.level = 1, !.experience = 0, !.cultivation = 1,
            !.achievements = <<>>, !.current_chapter = "xuzhang",
            !.kubectl_commands_mastered = <<>>, !.challenges_completed = <<>>]

----------------------------------------------------------------------------
(* player.py: construction and persistence *)

NoPlayer == [none |-> TRUE]

\* The dataclass constructor with every field a caller may pass.
PlayerFields(sect, level, experience, cultivation, achievements, current_chapter, mastered, completed, pstreak, total_correct, total_attempts, custom_titles, sect_bonus, health, max_health) ==
  [none |-> FALSE, sect |-> sect, level |-> level, experience |-> experience,
   cultivation |-> cultivation, achievements |-> achievements, unlocked |-> {},
   current_chapter |-> current_chapter, kubectl_commands_mastered |-> mastered,
   challenges_completed |-> completed, streak |-> pstreak,
   total_correct |-> total_correct, total_attempts |-> total_attempts,
   custom_titles |-> custom_titles, sect_bonus |-> sect_bonus,
   health |-> health, max_health |-> max_health, attack |-> DefaultAttack,
   defense |-> DefaultDefense, wrong_commands |-> <<>>]

_set_sect_bonus(p) == [p EXCEPT !.sect_bonus = SectBonusOf(p.sect)]

\* achievement_objects is empty at construction, so the predefined list is
\* created locked and checked at once, with the sect_bonus passed in.
_initialize_achievements(p) == check_and_unlock_achievements([p EXCEPT !.unlocked = {}])

__post_init__(p) ==
  LET p1 == [p EXCEPT !.level = IF @ < 1 THEN 1 ELSE @,
                      !.experience = IF @ < 0 THEN 0 ELSE @,
                      !.health = IF @ < 0 THEN DefaultHealth ELSE @,
                      !.max_health = IF @ < 0 THEN DefaultMaxHealth ELSE @,
                      !.streak = IF @ < 0 THEN 0 ELSE @,
                      !.total_correct = IF @ < 0 THEN 0 ELSE @,
                      !.total_attempts = IF @ < 0 THEN 0 ELSE @]
      p2 == _initialize_achievements(p1)
      p3 == _set_sect_bonus(p2)
  IN [p3 EXCEPT !.health = IF @ > p3.max_health THEN p3.max_health ELSE @]

\* Player(name=..., sect=...)
NewPlayer(sect) ==
  __post_init__(PlayerFields(sect, 1, 0, 1, <<>>, "xuzhang", <<>>, <<>>, 0, 0, 0,
                             <<>>, DefaultSectBonus, DefaultHealth, DefaultMaxHealth))

NoFile == [none |-> TRUE]

to_dict(p) ==
  [none |-> FALSE, sect |-> p.sect, level |-> p.level, experience |-> p.experience,
   cultivation |-> p.cultivation, achievements |-> p.achievements,
   achievement_objects |-> p.unlocked, current_chapter |-> p.current_chapter,
   kubectl_commands_mastered |-> p.kubectl_commands_mastered,
   challenges_completed |-> p.challenges_completed, streak |-> p.streak,
   total_correct |-> p.total_correct, total_attempts |-> p.total_attempts,
   custom_titles |-> p.custom_titles, sect_bonus |-> p.sect_bonus]

\* Player.load of a document written by Player.save: the constructor runs
\* __post_init__ on the saved fields, then the saved achievement objects
\* replace the ones the constructor made.
load(data) ==
  IF data.none THEN NoPlayer
  ELSE LET pl == __post_init__(
                   PlayerFields(data.sect, data.level, data.experience,
                                data.cultivation, data.achievements,
                                data.current_chapter, data.kubectl_commands_mastered,
                                data.challenges_completed, data.streak,
                                data.total_correct, data.total_attempts,
                                data.custom_titles, data.sect_bonus,
                                DefaultHealth, DefaultMaxHealth))
       IN [pl EXCEPT !.unlocked = data.achievement_objects]

----------------------------------------------------------------------------
(* story.py: chapters and monsters *)

ChapterOrder == <<"prologue", "chapter_1", "chapter_2", "chapter_3", "chapter_4",
                  "chapter_5", "chapter_6", "chapter_7", "chapter_8", "chapter_9",
                  "chapter_10", "chapter_11", "epilogue">>

ChapterValues == SeqToSet(ChapterOrder)

ChapterRewardExp == <<200, 300, 350, 400, 450, 500, 550, 600, 650, 700, 750, 800, 1000>>

reward_exp(chapter) == ChapterRewardExp[IndexOf(ChapterOrder, chapter)]

\* commands_to_learn of a chapter: two commands of the numbered catalog,
\* consecutive chapters sharing one (as chapter_4 and chapter_7 share a command).
\* chapter_10 and chapter_11 teach cloud vendor commands, none of which is a
\* key of the catalog: they are numbered above every catalog command.
commands_to_learn(chapter) ==
  LET i == IndexOf(ChapterOrder, chapter)
  IN IF chapter \in {"chapter_10", "chapter_11"}
     THEN <<NumCommands + 1, NumCommands + 2>>
     ELSE <<((i - 1) % CatalogSize) + 1, (i % CatalogSize) + 1>>

\* a variant of the advance that passes over a chapter
StoryAdvanceSkipping(chapter) ==
  LET i == IndexOf(ChapterOrder, chapter)
  IN IF i < Len(ChapterOrder) THEN ChapterOrder[Min(i + 2, Len(ChapterOrder))] ELSE chapter

StoryAdvance(chapter) ==
  LET i == IndexOf(ChapterOrder, chapter)
  IN IF i < Len(ChapterOrder) THEN ChapterOrder[i + 1] ELSE chapter

StoryCanAdvance(chapter) == IndexOf(ChapterOrder, chapter) < Len(ChapterOrder)

AdvanceChapterExp == 500

Monsters == {
  [none |-> FALSE, name |-> "pod_demon", health |-> 50, attack |-> 8, defense |-> 2, experience_reward |-> 100],
  [none |-> FALSE, name |-> "deployment_beast", health |-> 120, attack |-> 15, defense |-> 5, experience_reward |-> 250],
  [none |-> FALSE, name |-> "service_ghost", health |-> 80, attack |-> 12, defense |-> 3, experience_reward |-> 200]}

NoMonster == [none |-> TRUE]

NoChallenge == [none |-> TRUE]

FileNames == {"player_save.json", "slot.json"}

DefaultSaveFile == "player_save.json"

----------------------------------------------------------------------------
(* game_engine.py: challenge generation and answer evaluation on the engine *)
(* fields e = [player, streak, score, current_challenge]                   *)

\* a variant of the pool that keeps the target among the candidates
DistractorPoolWithTarget(catalog, target) == catalog

\* all_commands without the target
DistractorPool(catalog, target) == catalog \ {target}

\* random.sample(all_commands, 3), or the whole pool when it is smaller
DistractorChoices(pool) ==
  IF Cardinality(pool) >= 3
  THEN {SetToSeq(D) : D \in {X \in SUBSET pool : Cardinality(X) = 3}}
  ELSE {SetToSeq(pool)}

\* [target_command] + distractors, shuffled by the permutation f
BuildOptions(target, distractors, f) == Permute(<<target>> \o distractors, f)

MakeChallenge(chapter, target, options, rid) ==
  [none |-> FALSE, challenge_id |-> <<chapter, rid>>, expected_command |-> target,
   options |-> options, correct_option_index |-> IndexOf(options, target) - 1,
   reward_exp |-> reward_exp(chapter)]

\* a variant of the multiplier without the cap
StreakBonusUncapped(s) == 10 + s

\* min(5.0, 1.0 + streak * 0.1), in tenths
StreakBonus(s) == Min(50, 10 + s)

InRange(ch, user_choice) == user_choice - 1 >= 0 /\ user_choice - 1 < Len(ch.options)

\* a variant of the early return that treats the invalid index as a wrong answer
InvalidChoiceAsWrong(e, user_choice) ==
  [e |-> [e EXCEPT !.streak = 0],
   res |-> [op |-> "check_answer", choice |-> user_choice, correct |-> FALSE,
            message |-> "invalid_choice", streak |-> 0,
            score |-> e.score \div 10, unlocked_achievements |-> <<>>]]

\* the early return for an index outside the options: nothing is mutated
InvalidChoice(e, user_choice) ==
  [e |-> e, res |-> [op |-> "check_answer", choice |-> user_choice, correct |-> FALSE,
                     message |-> "invalid_choice", streak |-> e.streak,
                     score |-> e.score \div 10, unlocked_achievements |-> <<>>]]

check_answer(e, user_choice) ==
  IF e.current_challenge.none
  THEN [e |-> e, res |-> [op |-> "check_answer", choice |-> user_choice, correct |-> FALSE,
                          message |-> "no_challenge"]]
  ELSE IF ~InRange(e.current_challenge, user_choice)
  THEN InvalidChoice(e, user_choice)
  ELSE
    LET ch == e.current_challenge
        user_index == user_choice - 1
        is_correct == user_index = ch.correct_option_index
        selected_command == ch.options[user_index + 1]
    IN IF is_correct
       THEN LET s1 == e.streak + 1
                sc1 == e.score + ch.reward_exp * StreakBonus(s1)
                pa == complete_challenge(e.player, ch.challenge_id)
                pb == learn_command(pa, ch.expected_command)
                pc == gain_experience(pb, ch.reward_exp)
                pd == update_streak(pc, TRUE)
                un == check_and_unlock_achievements_ret(pd)
                pe == check_and_unlock_achievements(pd)
                pf == [pe EXCEPT !.streak = s1]
            IN [e |-> [e EXCEPT !.streak = s1, !.score = sc1,
                                !.player = IF e.player.none THEN e.player ELSE pf],
                res |-> [op |-> "check_answer", choice |-> user_choice, correct |-> TRUE,
                         message |-> "correct",
                         streak |-> s1, score |-> sc1 \div 10,
                         unlocked_achievements |-> IF e.player.none THEN <<>> ELSE un]]
       ELSE LET pa == update_streak(e.player, FALSE)
                pb == [pa EXCEPT !.streak = 0,
                                 !.wrong_commands = Append(@, selected_command)]
            IN [e |-> [e EXCEPT !.streak = 0,
                                !.player = IF e.player.none THEN e.player ELSE pb],
                res |-> [op |-> "check_answer", choice |-> user_choice, correct |-> FALSE,
                         message |-> "wrong",
                         streak |-> 0, score |-> e.score \div 10,
                         unlocked_achievements |-> <<>>,
                         expected |-> ch.expected_command, given |-> selected_command]]

\* a variant of the damage that is not floored at zero
TakeDamageUnfloored(health, monster_damage) == health - monster_damage

\* max(0, self.player.health - monster_damage)
TakeDamage(health, monster_damage) == Max(0, health - monster_damage)

\* a variant of the damage whose minimum is zero
PlayerDamageFloorZero(p, monster, answer_correct) ==
  IF answer_correct THEN Max(0, p.attack * 2 - monster.defense)
  ELSE Max(0, p.attack \div 2 - monster.defense)

\* a variant of the damage without the minimum of one point
PlayerDamageNoMinimum(p, monster, answer_correct) ==
  IF answer_correct THEN p.attack * 2 - monster.defense
  ELSE p.attack \div 2 - monster.defense

\* damage dealt by the player: attack doubled on a correct answer, halved otherwise
PlayerDamage(p, monster, answer_correct) ==
  IF answer_correct THEN Max(1, p.attack * 2 - monster.defense)
  ELSE Max(1, p.attack \div 2 - monster.defense)

_monster_counter_attack(e, monster, player_damage) ==
  LET monster_damage == Max(1, monster.attack - e.player.defense)
      h == TakeDamage(e.player.health, monster_damage)
      e1 == [e EXCEPT !.player.health = h]
  IN [e |-> e1,
      res |-> [op |-> "player_attack", raised |-> FALSE,
               status |-> IF h <= 0 THEN "combat_lost" ELSE "combat_ongoing",
               player_health |-> h, monster_health |-> e.monster_current_health,
               damage |-> player_damage,
               monster_damage |-> monster_damage, streak |-> e.streak]]

_handle_combat_victory(e, monster, damage) ==
  LET e1 == [e EXCEPT !.player = gain_experience(@, monster.experience_reward),
                      !.current_monster = NoMonster]
  IN [e |-> e1,
      res |-> [op |-> "player_attack", raised |-> FALSE, status |-> "combat_won",
               player_health |-> e1.player.health, monster_health |-> 0,
               damage |-> damage, monster_damage |-> 0,
               exp_gained |-> monster.experience_reward, streak |-> e.streak]]

\* a variant of the attack that also writes the damage to the health of
\* the monster object of the encounter
player_attack_on_template(e, monster, answer_correct) ==
  IF e.player.none
  THEN [e |-> e, res |-> [op |-> "player_attack", raised |-> TRUE, status |-> "error"]]
  ELSE LET damage == PlayerDamage(e.player, monster, answer_correct)
           e1 == [e EXCEPT !.streak = IF answer_correct THEN @ + 1 ELSE 0,
                           !.monster_current_health = Max(0, @ - damage),
                           !.current_monster = IF @.none THEN @
                                               ELSE [@ EXCEPT !.health = Max(0, @ - damage)]]
       IN IF e1.monster_current_health <= 0
          THEN _handle_combat_victory(e1, monster, damage)
          ELSE _monster_counter_attack(e1, monster, damage)

player_attack(e, monster, answer_correct) ==
  IF e.player.none
  THEN [e |-> e, res |-> [op |-> "player_attack", raised |-> TRUE, status |-> "error"]]
  ELSE LET damage == PlayerDamage(e.player, monster, answer_correct)
           e1 == [e EXCEPT !.streak = IF answer_correct THEN @ + 1 ELSE 0,
                           !.monster_current_health = Max(0, @ - damage)]
       IN IF e1.monster_current_health <= 0
          THEN _handle_combat_victory(e1, monster, damage)
          ELSE _monster_counter_attack(e1, monster, damage)

\* a variant of the failed flee in which the monster's attack is not doubled
flee_combat_undoubled(e, monster, flee_success) ==
  IF flee_success
  THEN [e |-> [e EXCEPT !.current_monster = NoMonster],
        res |-> [op |-> "flee_combat", raised |-> FALSE, status |-> "flee_success"]]
  ELSE IF e.player.none
  THEN [e |-> e, res |-> [op |-> "flee_combat", raised |-> TRUE, status |-> "error"]]
  ELSE LET monster_damage == Max(1, monster.attack - e.player.defense)
           h == TakeDamage(e.player.health, monster_damage)
       IN [e |-> [e EXCEPT !.player.health = h],
           res |-> [op |-> "flee_combat", raised |-> FALSE, status |-> "flee_failed",
                    player_health |-> h, monster_health |-> e.monster_current_health,
                    monster_damage |-> monster_damage]]

flee_combat(e, monster, flee_success) ==
  IF flee_success
  THEN [e |-> [e EXCEPT !.current_monster = NoMonster],
        res |-> [op |-> "flee_combat", raised |-> FALSE, status |-> "flee_success"]]
  ELSE IF e.player.none
  THEN [e |-> e, res |-> [op |-> "flee_combat", raised |-> TRUE, status |-> "error"]]
  ELSE LET monster_damage == Max(1, monster.attack * 2 - e.player.defense)
           h == TakeDamage(e.player.health, monster_damage)
       IN [e |-> [e EXCEPT !.player.health = h],
           res |-> [op |-> "flee_combat", raised |-> FALSE, status |-> "flee_failed",
                    player_health |-> h, monster_health |-> e.monster_current_health,
                    monster_damage |-> monster_damage]]

----------------------------------------------------------------------------
(* State *)

Engine == [player |-> player, streak |-> streak, score |-> score,
           current_challenge |-> current_challenge,
           current_monster |-> current_monster,
           monster_current_health |-> monster_current_health]

SetEngine(e) ==
  /\ player' = e.player
  /\ streak' = e.streak
  /\ score' = e.score
  /\ current_challenge' = e.current_challenge
  /\ current_monster' = e.current_monster
  /\ monster_current_health' = e.monster_current_health

\* GameEngine.__init__ with the catalog given
EngineInit(catalog) ==
  /\ player = NoPlayer
  /\ commands = catalog
  /\ story_chapter = "prologue"
  /\ streak = 0
  /\ score = 0
  /\ current_challenge = NoChallenge
  /\ current_monster = NoMonster
  /\ monster_current_health = 0
  /\ files = [f \in FileNames |-> NoFile]
  /\ cli_monster = NoMonster
  /\ result = [op |-> "init"]

Init == EngineInit(1..CatalogSize)

\* the engine after initialize_player(name, sect), for any sect
InitWithPlayer ==
  \E sect \in Sects :
    /\ player = NewPlayer(sect)
    /\ commands = 1..CatalogSize
    /\ story_chapter = "prologue"
    /\ streak = 0
    /\ score = 0
    /\ current_challenge = NoChallenge
    /\ current_monster = NoMonster
    /\ monster_current_health = 0
    /\ files = [f \in FileNames |-> IF f = DefaultSaveFile THEN to_dict(NewPlayer(sect)) ELSE NoFile]
    /\ cli_monster = NoMonster
    /\ result = [op |-> "initialize_player", sect |-> sect]

----------------------------------------------------------------------------
(* GameEngine operations *)

initialize_player(sect) ==
  /\ player' = NewPlayer(sect)
  /\ files' = [files EXCEPT ![DefaultSaveFile] = to_dict(NewPlayer(sect))]
  /\ result' = [op |-> "initialize_player", sect |-> sect]
  /\ UNCHANGED <<commands, story_chapter, streak, score, current_challenge,
                 current_monster, monster_current_health, cli_monster>>

load_player(f) ==
  /\ player' = load(files[f])
  /\ story_chapter' = IF files[f].none THEN story_chapter
                      ELSE IF load(files[f]).current_chapter \in ChapterValues
                           THEN load(files[f]).current_chapter
                           ELSE "prologue"
  /\ result' = [op |-> "load_player", file |-> f, loaded |-> ~files[f].none]
  /\ UNCHANGED <<commands, streak, score, current_challenge, current_monster,
                 monster_current_health, files, cli_monster>>

\* Every outcome of the random draws of generate_challenge (target,
\* challenge number, distractors, shuffle); NoChallenge stands for the
\* return of None when the target is not in the catalog.
GenerateOutcomes(chapter, catalog) ==
  UNION {
    LET target == commands_to_learn(chapter)[k]
        pool == DistractorPool(catalog, target)
    IN IF target \notin catalog THEN {NoChallenge}
       ELSE UNION {
              {MakeChallenge(chapter, target, BuildOptions(target, d, f), rid) :
                 rid \in 1..NumChallengeIds, f \in Perms(1 + Len(d))}
              : d \in DistractorChoices(pool)}
    : k \in 1..Len(commands_to_learn(chapter))}

generate_challenge ==
  /\ \E c \in GenerateOutcomes(story_chapter, commands) :
       /\ current_challenge' = IF c.none THEN current_challenge ELSE c
       /\ result' = [op |-> "generate_challenge", generated |-> ~c.none]
  /\ UNCHANGED <<player, commands, story_chapter, streak, score, current_monster,
                 monster_current_health, files, cli_monster>>

\* bound of the model on the answers evaluated
AnswerBudget(user_choice, maxAttempts, maxStreak, maxWrong, maxLevel) ==
  IF current_challenge.none THEN TRUE
  ELSE IF ~InRange(current_challenge, user_choice) THEN TRUE
  ELSE /\ streak < maxStreak
       /\ IF player.none THEN TRUE
          ELSE /\ player.total_attempts < maxAttempts
               /\ player.level < maxLevel
               /\ IF user_choice - 1 = current_challenge.correct_option_index THEN TRUE
                  ELSE Len(player.wrong_commands) < maxWrong

CheckAnswer(user_choice) ==
  /\ SetEngine(check_answer(Engine, user_choice).e)
  /\ result' = check_answer(Engine, user_choice).res
  /\ UNCHANGED <<commands, story_chapter, files, cli_monster>>

advance_chapter ==
  IF player.none
  THEN /\ result' = [op |-> "advance_chapter", raised |-> TRUE, ret |-> FALSE]
       /\ UNCHANGED <<player, commands, story_chapter, streak, score, current_challenge,
                      current_monster, monster_current_health, files, cli_monster>>
  ELSE IF StoryCanAdvance(story_chapter)
  THEN LET p1 == gain_experience([player EXCEPT !.current_chapter = StoryAdvance(story_chapter)],
                                 AdvanceChapterExp)
       IN /\ story_chapter' = StoryAdvance(story_chapter)
          /\ player' = p1
          /\ files' = [files EXCEPT ![DefaultSaveFile] = to_dict(p1)]
          /\ result' = [op |-> "advance_chapter", raised |-> FALSE, ret |-> TRUE]
          /\ UNCHANGED <<commands, streak, score, current_challenge, current_monster,
                         monster_current_health, cli_monster>>
  ELSE /\ result' = [op |-> "advance_chapter", raised |-> FALSE, ret |-> FALSE]
       /\ UNCHANGED <<player, commands, story_chapter, streak, score, current_challenge,
                      current_monster, monster_current_health, files, cli_monster>>

save_game(save_name) ==
  /\ IF player.none
     THEN /\ result' = [op |-> "save_game", ret |-> FALSE]
          /\ UNCHANGED files
     ELSE /\ files' = [files EXCEPT ![save_name] = to_dict(player)]
          /\ result' = [op |-> "save_game", ret |-> TRUE, file |-> save_name]
  /\ UNCHANGED <<player, commands, story_chapter, streak, score, current_challenge,
                 current_monster, monster_current_health, cli_monster>>

reset_streak ==
  /\ streak' = 0
  /\ result' = [op |-> "reset_streak"]
  /\ UNCHANGED <<player, commands, story_chapter, score, current_challenge,
                 current_monster, monster_current_health, files, cli_monster>>

start_combat(monster) ==
  /\ IF player.none
     THEN /\ result' = [op |-> "start_combat", raised |-> TRUE, status |-> "error"]
          /\ UNCHANGED <<current_monster, monster_current_health, cli_monster>>
     ELSE /\ current_monster' = monster
          /\ monster_current_health' = monster.health
          /\ result' = [op |-> "start_combat", raised |-> FALSE, status |-> "combat_started"]
  /\ UNCHANGED <<player, commands, story_chapter, streak, score, current_challenge, files,
                 cli_monster>>

\* bound of the model on the experience and streak combat can add
CombatBudget ==
  streak < MaxCombatStreak /\ (IF player.none THEN TRUE ELSE player.level < MaxCombatLevel)

\* bound of the model on the experience a profile gathers
LevelBudget == IF player.none THEN TRUE ELSE player.level < MaxLevel

PlayerAttack(monster, answer_correct) ==
  /\ SetEngine(player_attack(Engine, monster, answer_correct).e)
  /\ result' = player_attack(Engine, monster, answer_correct).res
                  @@ [monster |-> monster.name, answer_correct |-> answer_correct]
  /\ UNCHANGED <<commands, story_chapter, files, cli_monster>>

FleeCombat(monster, flee_success) ==
  /\ SetEngine(flee_combat(Engine, monster, flee_success).e)
  /\ result' = flee_combat(Engine, monster, flee_success).res
                  @@ [monster |-> monster.name, flee_success |-> flee_success]
  /\ UNCHANGED <<commands, story_chapter, files, cli_monster>>

----------------------------------------------------------------------------
(* cli.py: KuGameCLI.do_combat, the loop around the engine's combat calls *)

do_combat(monster) ==
  /\ cli_monster.none
  /\ ~player.none
  /\ cli_monster' = monster
  /\ current_monster' = monster
  /\ monster_current_health' = monster.health
  /\ result' = [op |-> "start_combat", raised |-> FALSE, status |-> "combat_started"]
  /\ UNCHANGED <<player, commands, story_chapter, streak, score, current_challenge, files>>

\* the "attack" branch of one iteration: the challenge c is generated, the
\* answer (already validated to be in range) is checked, and the attack is
\* made with the result of that check
do_combat_attack(c, answer_choice) ==
  /\ ~cli_monster.none
  /\ IF c.none
     THEN /\ cli_monster' = NoMonster
          /\ result' = [op |-> "do_combat_attack", answered |-> FALSE, status |-> "no_challenge"]
          /\ UNCHANGED <<player, streak, score, current_challenge, current_monster,
                         monster_current_health>>
     ELSE LET e1 == [Engine EXCEPT !.current_challenge = c]
              r1 == check_answer(e1, answer_choice)
              r2 == player_attack(r1.e, cli_monster, r1.res.correct)
          IN /\ SetEngine(r2.e)
             /\ cli_monster' = IF r2.res.status \in {"combat_won", "combat_lost"}
                               THEN NoMonster ELSE cli_monster
             /\ result' = [op |-> "do_combat_attack", answered |-> TRUE,
                           correct |-> r1.res.correct, status |-> r2.res.status,
                           streak |-> r2.res.streak]
  /\ UNCHANGED <<commands, story_chapter, files>>

do_combat_flee(flee_success) ==
  /\ ~cli_monster.none
  /\ LET r == flee_combat(Engine, cli_monster, flee_success)
     IN /\ SetEngine(r.e)
        /\ cli_monster' = IF r.res.status = "flee_success" THEN NoMonster ELSE cli_monster
        /\ result' = r.res
  /\ UNCHANGED <<commands, story_chapter, files>>

----------------------------------------------------------------------------
(* Player operations called directly *)

GainAmounts == {0, 1000}

UnlockIds == {"streak_5", "story_chapter_3", "no_such_achievement"}

PlayerGainExperience(exp) ==
  /\ ~player.none
  /\ player' = gain_experience(player, exp)
  /\ result' = [op |-> "gain_experience", exp |-> exp, ret |-> gain_experience_ret(player, exp)]
  /\ UNCHANGED <<commands, story_chapter, streak, score, current_challenge,
                 current_monster, monster_current_health, files, cli_monster>>

PlayerLearnCommand(command) ==
  /\ ~player.none
  /\ player' = learn_command(player, command)
  /\ result' = [op |-> "learn_command", command |-> command,
                ret |-> ~Contains(player.kubectl_commands_mastered, command)]
  /\ UNCHANGED <<commands, story_chapter, streak, score, current_challenge,
                 current_monster, monster_current_health, files, cli_monster>>

PlayerCompleteChallenge(challenge_id) ==
  /\ ~player.none
  /\ player' = complete_challenge(player, challenge_id)
  /\ result' = [op |-> "complete_challenge", challenge_id |-> challenge_id,
                ret |-> ~Contains(player.challenges_completed, challenge_id)]
  /\ UNCHANGED <<commands, story_chapter, streak, score, current_challenge,
                 current_monster, monster_current_health, files, cli_monster>>

PlayerUnlockAchievement(achievement_id) ==
  /\ ~player.none
  /\ player' = unlock_achievement(player, achievement_id)
  /\ result' = [op |-> "unlock_achievement", achievement_id |-> achievement_id,
                ret |-> unlock_achievement_ret(player, achievement_id)]
  /\ UNCHANGED <<commands, story_chapter, streak, score, current_challenge,
                 current_monster, monster_current_health, files, cli_monster>>

PlayerCheckAndUnlock ==
  /\ ~player.none
  /\ player' = check_and_unlock_achievements(player)
  /\ result' = [op |-> "check_and_unlock_achievements",
                ret |-> check_and_unlock_achievements_ret(player)]
  /\ UNCHANGED <<commands, story_chapter, streak, score, current_challenge,
                 current_monster, monster_current_health, files, cli_monster>>

PlayerUpdateStreak(correct) ==
  /\ ~player.none
  /\ player' = update_streak(player, correct)
  /\ result' = [op |-> "update_streak", correct |-> correct]
  /\ UNCHANGED <<commands, story_chapter, streak, score, current_challenge,
                 current_monster, monster_current_health, files, cli_monster>>

PlayerResetProgress ==
  /\ ~player.none
  /\ player' = reset_progress(player)
  /\ result' = [op |-> "reset_progress"]
  /\ UNCHANGED <<commands, story_chapter, streak, score, current_challenge,
                 current_monster, monster_current_health, files, cli_monster>>

----------------------------------------------------------------------------
(* Specifications *)

Choices == 0..(Min(4, CatalogSize) + 1)

\* the engine as the story and challenge menus drive it
Next ==
  \/ generate_challenge
  \/ \E user_choice \in Choices :
       AnswerBudget(user_choice, MaxAttempts, MaxStreak, MaxWrong, MaxLevel) /\ CheckAnswer(user_choice)
  \/ LevelBudget /\ advance_chapter
  \/ reset_streak

Spec == InitWithPlayer /\ [][Next]_vars

\* bound of the model on the calls of update_streak
StreakBudget == player.total_attempts < MaxPlayerAttempts

LearnInputs == 1..MaxLearn

ChallengeIdInputs == {<<"prologue", rid>> : rid \in 1..NumChallengeIds}

\* the Player API called directly on one profile
NextPlayer ==
  \/ \E exp \in GainAmounts : LevelBudget /\ PlayerGainExperience(exp)
  \/ \E command \in LearnInputs : LevelBudget /\ PlayerLearnCommand(command)
  \/ \E challenge_id \in ChallengeIdInputs : LevelBudget /\ PlayerCompleteChallenge(challenge_id)
  \/ \E achievement_id \in UnlockIds : LevelBudget /\ PlayerUnlockAchievement(achievement_id)
  \/ PlayerCheckAndUnlock
  \/ \E correct \in BOOLEAN : StreakBudget /\ LevelBudget /\ PlayerUpdateStreak(correct)
  \/ PlayerResetProgress

SpecPlayer == InitWithPlayer /\ [][NextPlayer]_vars

\* bound of the model on the loads: a profile is loaded right after a save
JustSaved == result.op = "save_game"

\* bound of the model on the experience loading may add
LoadBudget == IF player.none THEN TRUE ELSE player.level < MaxSavedLevel

\* playing, saving the profile and loading it back
NextPersist ==
  \/ generate_challenge
  \/ \E user_choice \in Choices :
       AnswerBudget(user_choice, MaxSavedAttempts, MaxSavedAttempts, 0, MaxSavedLevel) /\ CheckAnswer(user_choice)
  \/ save_game(DefaultSaveFile)
  \/ JustSaved /\ LoadBudget /\ load_player(DefaultSaveFile)

SpecPersist == InitWithPlayer /\ [][NextPersist]_vars

\* chapters generation starts from: two that teach catalog commands in
\* different orders and one that teaches commands off the catalog
GenChapters == {"prologue", "chapter_1", "chapter_10"}

\* an engine over any catalog, at one of these chapters
InitGen ==
  \E catalog \in SUBSET (1..NumCommands) : \E chapter \in GenChapters :
    /\ player = NoPlayer
    /\ commands = catalog
    /\ story_chapter = chapter
    /\ streak = 0
    /\ score = 0
    /\ current_challenge = NoChallenge
    /\ current_monster = NoMonster
    /\ monster_current_health = 0
    /\ files = [f \in FileNames |-> NoFile]
    /\ cli_monster = NoMonster
    /\ result = [op |-> "init"]

NextGen == generate_challenge

SpecGen == InitGen /\ [][NextGen]_vars

\* the sect of the profile taken into combat (the sect only scales experience)
CombatSect == "xiaoyao"

\* the engine after initialize_player(name, CombatSect)
InitCombat ==
  /\ player = NewPlayer(CombatSect)
  /\ commands = 1..CatalogSize
  /\ story_chapter = "prologue"
  /\ streak = 0
  /\ score = 0
  /\ current_challenge = NoChallenge
  /\ current_monster = NoMonster
  /\ monster_current_health = 0
  /\ files = [f \in FileNames |-> IF f = DefaultSaveFile THEN to_dict(NewPlayer(CombatSect)) ELSE NoFile]
  /\ cli_monster = NoMonster
  /\ result = [op |-> "initialize_player", sect |-> CombatSect]

\* the monster passed to player_attack and flee_combat: the one of the
\* encounter while there is one, any monster otherwise
Targets == IF current_monster.none THEN Monsters ELSE {current_monster}

\* the combat API of the engine called directly
NextCombat ==
  \/ \E monster \in Monsters : start_combat(monster)
  \/ \E monster \in Targets : \E answer_correct \in BOOLEAN :
       CombatBudget /\ PlayerAttack(monster, answer_correct)
  \/ \E monster \in Targets : \E flee_success \in BOOLEAN :
       FleeCombat(monster, flee_success)

SpecCombat == InitCombat /\ [][NextCombat]_vars

\* the answers the combat loop accepts for the challenge c
AnswerChoices(c) == IF c.none THEN {1} ELSE 1..Len(c.options)

\* bound of the model on the answers given in combat
CliBudget(c, answer_choice) ==
  IF c.none THEN TRUE
  ELSE /\ CombatBudget
       /\ IF answer_choice - 1 = c.correct_option_index THEN TRUE
          ELSE Len(player.wrong_commands) < MaxWrong

\* the combat loop of the command line
NextCli ==
  \/ \E monster \in Monsters : do_combat(monster)
  \/ \E c \in GenerateOutcomes(story_chapter, commands) : \E answer_choice \in AnswerChoices(c) :
       CliBudget(c, answer_choice) /\ do_combat_attack(c, answer_choice)
  \/ \E flee_success \in BOOLEAN : do_combat_flee(flee_success)

SpecCli == InitWithPlayer /\ [][NextCli]_vars

\* a long run of correct answers (and invalid choices) from a new profile
NextScore ==
  \/ generate_challenge
  \/ \E user_choice \in Choices :
       AnswerBudget(user_choice, MaxScoreStreak, MaxScoreStreak, 0, MaxScoreLevel) /\ CheckAnswer(user_choice)

SpecScore == InitWithPlayer /\ [][NextScore]_vars

----------------------------------------------------------------------------
(* Properties of the profile *)

Count(s, x) == Cardinality({i \in 1..Len(s) : s[i] = x})

RECURSIVE SumRequired(_)
SumRequired(level) ==
  IF level <= 1 THEN 0 ELSE _calculate_required_exp(level - 1) + SumRequired(level - 1)

\* all the experience a profile has been credited with since level 1
TotalExp(p) == p.experience + SumRequired(p.level)

RECURSIVE SumRewards(_, _)
SumRewards(ids, bonus) ==
  IF ids = {} THEN 0
  ELSE LET id == CHOOSE x \in ids : TRUE
       IN ApplySectBonus(AchievementById(id).experience, bonus) + SumRewards(ids \ {id}, bonus)

\* C1: in every state the experience of the profile is at least 0 and less
\* than the experience required by its level, floor(100 * 1.5^(level-1)).
C1_ExperienceWithinLevel ==
  player.none \/ ( /\ 0 <= player.experience
                   /\ player.experience < _calculate_required_exp(player.level) )

\* a single gain_experience call has raised the profile by two levels or more
C1_Witness ==
  /\ ~player.none
  /\ result.op = "gain_experience"
  /\ result.ret
  /\ player.level >= 5
  /\ player.experience > 0

\* C3: on one profile an achievement never goes from unlocked to locked; in
\* the step that unlocks it its id and its title are added once and its
\* experience reward is credited once; a title of an achievement already
\* unlocked is never added again; and unlock_achievement or
\* check_and_unlock_achievements that unlocks nothing changes nothing.
C3_UnlockOnce ==
  [][ (~player.none /\ ~player'.none) =>
        LET new == player'.unlocked \ player.unlocked
        IN /\ player.unlocked \subseteq player'.unlocked
           /\ \A id \in AchievementIds :
                LET t == AchievementById(id).title
                IN /\ id \in player.unlocked =>
                        Count(player'.custom_titles, t) = Count(player.custom_titles, t)
                   /\ id \in new =>
                        /\ Count(player'.custom_titles, t) = Count(player.custom_titles, t) + 1
                        /\ Count(player'.achievements, id) = Count(player.achievements, id) + 1
           /\ result'.op \in {"unlock_achievement", "check_and_unlock_achievements",
                              "update_streak"} =>
                TotalExp(player') = TotalExp(player) + SumRewards(new, player.sect_bonus)
           /\ (result'.op \in {"unlock_achievement", "check_and_unlock_achievements"}
               /\ new = {}) => player' = player
    ]_vars

\* unlock_achievement has been called on an achievement unlocked before
C3_Witness ==
  /\ ~player.none
  /\ result.op = "unlock_achievement"
  /\ result.achievement_id \in player.unlocked
  /\ ~result.ret
  /\ player.streak >= 5

\* C9 as claimed: no operation on a profile lowers its level or removes a
\* mastered command.
C9_Original ==
  [][ (~player.none /\ ~player'.none) =>
        /\ player'.level >= player.level
        /\ SeqToSet(player.kubectl_commands_mastered)
             \subseteq SeqToSet(player'.kubectl_commands_mastered)
    ]_vars

\* C9 amended: no operation on a profile other than reset_progress lowers
\* its level or removes a mastered command.
C9_MonotoneExceptReset ==
  [][ (~player.none /\ ~player'.none /\ result'.op # "reset_progress") =>
        /\ player'.level >= player.level
        /\ SeqToSet(player.kubectl_commands_mastered)
             \subseteq SeqToSet(player'.kubectl_commands_mastered)
    ]_vars

\* a second command has been learned by a profile above level 1
C9_Witness ==
  /\ ~player.none
  /\ result.op = "learn_command"
  /\ result.ret
  /\ Len(player.kubectl_commands_mastered) = 2
  /\ player.level > 1

----------------------------------------------------------------------------
(* Properties of answer evaluation *)

\* C4: check_answer with a 1-based choice outside the options of the active
\* challenge returns correct = FALSE with the invalid-selection message and
\* changes nothing: engine streak, score and active challenge, and the whole
\* profile (streak, totals, experience, level, lists, wrong_commands).
C4_InvalidChoiceFrame ==
  [][(/\ result'.op = "check_answer"
      /\ ~current_challenge.none
      /\ ~InRange(current_challenge, result'.choice))
     => (/\ result'.correct = FALSE
         /\ result'.message = "invalid_choice"
         /\ streak' = streak
         /\ score' = score
         /\ current_challenge' = current_challenge
         /\ player' = player)]_vars

\* an invalid choice has been evaluated while a streak, a score and answer
\* totals were there to lose
C4_Witness ==
  /\ result.op = "check_answer"
  /\ result.message = "invalid_choice"
  /\ result.choice > Len(current_challenge.options)
  /\ streak >= 2
  /\ score > 0
  /\ player.total_attempts >= 2

\* C6: after check_answer has evaluated an in-range answer, a further
\* check_answer with no generate_challenge in between finds no active
\* challenge and adds nothing to streak, score, totals or experience.
C6_ConsumedOnce ==
  [][(/\ result.op = "check_answer"
      /\ result.message \in {"correct", "wrong"}
      /\ result'.op = "check_answer")
     => (/\ result'.message = "no_challenge"
         /\ streak' = streak
         /\ score' = score
         /\ player'.total_correct = player.total_correct
         /\ player'.total_attempts = player.total_attempts
         /\ TotalExp(player') = TotalExp(player))]_vars

----------------------------------------------------------------------------
(* Properties of persistence *)

\* C2: Player.save followed by Player.load of the same file yields a profile
\* whose level, experience, kubectl_commands_mastered, challenges_completed
\* and streak are those that were saved.
C2_RoundTrip ==
  (result.op = "load_player" /\ result.loaded)
    => LET data == files[result.file]
       IN /\ player.level = data.level
          /\ player.experience = data.experience
          /\ player.kubectl_commands_mastered = data.kubectl_commands_mastered
          /\ player.challenges_completed = data.challenges_completed
          /\ player.streak = data.streak

----------------------------------------------------------------------------
(* Properties of challenge generation *)

\* C5: every generated challenge has pairwise distinct options, exactly
\* min(4, catalog size) of them, exactly one of which equals expected_command,
\* and options[correct_option_index] = expected_command; generation succeeds
\* whenever the chapter's commands are in the catalog, however small it is.
C5_ChallengeWellFormed ==
  /\ ~current_challenge.none =>
       LET options == current_challenge.options
       IN /\ Len(options) = Min(4, Cardinality(commands))
          /\ \A i, j \in 1..Len(options) : options[i] = options[j] => i = j
          /\ Cardinality({i \in 1..Len(options) :
                            options[i] = current_challenge.expected_command}) = 1
          /\ current_challenge.correct_option_index \in 0..(Len(options) - 1)
          /\ options[current_challenge.correct_option_index + 1]
               = current_challenge.expected_command
  /\ (/\ result.op = "generate_challenge"
      /\ SeqToSet(commands_to_learn(story_chapter)) \subseteq commands)
     => (result.generated /\ ~current_challenge.none)

\* a challenge generated from a catalog of three commands: three options
C5_Witness ==
  /\ result.op = "generate_challenge"
  /\ result.generated
  /\ Cardinality(commands) = 3
  /\ Len(current_challenge.options) = 3
  /\ current_challenge.correct_option_index = 2

----------------------------------------------------------------------------
(* Properties of combat *)

\* C7: Won, Lost and Fled are terminal: right after player_attack returned
\* combat_won or combat_lost, or flee_combat returned flee_success, a further
\* player_attack or flee_combat changes neither monster_current_health nor
\* the profile's health, experience or level; and a player_attack made
\* before any start_combat awards no experience.
C7_TerminalEncounter ==
  [][(/\ result'.op \in {"player_attack", "flee_combat"}
      /\ (IF result.op = "initialize_player" THEN TRUE
          ELSE /\ result.op \in {"player_attack", "flee_combat"}
               /\ result.status \in {"combat_won", "combat_lost", "flee_success"}))
     => (/\ player'.experience = player.experience
         /\ player'.level = player.level
         /\ (IF result.op = "initialize_player" THEN TRUE
             ELSE /\ monster_current_health' = monster_current_health
                  /\ player'.health = player.health))]_vars

\* C10: in every reachable state 0 <= health <= max_health, whatever
\* sequence of start_combat, player_attack and flee_combat is executed.
C10_HealthInRange ==
  ~player.none => (0 <= player.health /\ player.health <= player.max_health)

\* a failed flee has brought the profile's health to zero
C10_Witness ==
  /\ result.op = "flee_combat"
  /\ result.status = "flee_failed"
  /\ result.monster_damage > 0
  /\ player.health = 0
  /\ player.max_health = DefaultMaxHealth

\* C8: after any sequence of answered challenges, combat turns included, the
\* engine's streak is the number of consecutive correct answers since the
\* last incorrect one: each correct answer adds one to it and each incorrect
\* answer sets it to zero.
C8_StreakCountsAnswers ==
  [][((result'.op = "check_answer" /\ result'.message \in {"correct", "wrong"})
      \/ (result'.op = "do_combat_attack" /\ result'.answered))
     => (IF result'.correct THEN streak' = streak + 1 ELSE streak' = 0)]_vars

MonsterByName(name) == CHOOSE m \in Monsters : m.name = name

\* C11: player_attack deals max(1, 2*attack - defense of the monster) on a
\* correct answer and max(1, attack \div 2 - defense of the monster) otherwise,
\* and lowers monster_current_health by it, floored at 0; at 0 the result is
\* combat_won and the player's health is unchanged; otherwise the monster
\* counters for max(1, its attack - the player's defense), the player's
\* health is floored at 0, and the result is combat_lost exactly when that
\* health is 0, combat_ongoing otherwise.
C11_PlayerAttackOutcome ==
  [][(result'.op = "player_attack" /\ ~result'.raised) =>
       LET m == MonsterByName(result'.monster)
           dealt == IF result'.answer_correct
                    THEN Max(1, 2 * player.attack - m.defense)
                    ELSE Max(1, player.attack \div 2 - m.defense)
           left == Max(0, monster_current_health - dealt)
           countered == Max(1, m.attack - player.defense)
       IN /\ result'.damage = dealt
          /\ monster_current_health' = left
          /\ IF left = 0
             THEN /\ result'.status = "combat_won"
                  /\ player'.health = player.health
             ELSE /\ player'.health = Max(0, player.health - countered)
                  /\ result'.monster_damage = countered
                  /\ result'.status = IF player'.health = 0 THEN "combat_lost"
                                      ELSE "combat_ongoing"]_vars

\* a correct attack on the pod demon: 18 damage, the monster survives and
\* counters for 3
C11_Witness ==
  /\ result.op = "player_attack"
  /\ result.answer_correct
  /\ result.status = "combat_ongoing"
  /\ result.damage = 18
  /\ monster_current_health = 32
  /\ player.health = 97

\* C12: flee_combat has two outcomes: on success the current monster is
\* cleared and no health changes; on failure the player's health drops by
\* max(1, 2 * attack of the monster - defense), floored at 0, the monster's
\* health and the current monster are unchanged and flee_failed is reported.
C12_FleeOutcome ==
  [][(result'.op = "flee_combat" /\ ~player.none) =>
       LET m == MonsterByName(result'.monster)
       IN IF result'.flee_success
          THEN /\ result'.status = "flee_success"
               /\ current_monster' = NoMonster
               /\ player' = player
               /\ monster_current_health' = monster_current_health
          ELSE /\ result'.status = "flee_failed"
               /\ result'.monster_damage = Max(1, 2 * m.attack - player.defense)
               /\ player'.health = Max(0, player.health - Max(1, 2 * m.attack - player.defense))
               /\ monster_current_health' = monster_current_health
               /\ current_monster' = current_monster]_vars

\* a failed flee from the pod demon of an encounter in progress: 11 damage
C12_Witness ==
  /\ result.op = "flee_combat"
  /\ result.status = "flee_failed"
  /\ result.monster_damage = 11
  /\ player.health = 89
  /\ ~current_monster.none
  /\ monster_current_health = 50

----------------------------------------------------------------------------
(* Properties of the score and of the experience of an answer *)

\* C13: on every correct answer the score (kept in tenths) grows by
\* reward_exp * min(5.0, 1 + 0.1 * s), s being the streak after the
\* increment for that answer; the multiplier is 1.1 at s = 1, 2.0 at s = 10,
\* 4.9 at s = 39, 5.0 at s = 40 and at every larger s.
C13_ScoreGrowth ==
  [][(result'.op = "check_answer" /\ result'.correct) =>
       LET s == streak + 1
           tenths == IF s >= 40 THEN 50 ELSE 10 + s
       IN /\ streak' = s
          /\ score' = score + current_challenge.reward_exp * tenths
          /\ s = 1 => score' - score = current_challenge.reward_exp * 11
          /\ s = 10 => score' - score = current_challenge.reward_exp * 20
          /\ s = 39 => score' - score = current_challenge.reward_exp * 49
          /\ s >= 40 => score' - score = current_challenge.reward_exp * 50]_vars

\* a correct answer has been given at a streak above 40
C13_Witness ==
  /\ result.op = "check_answer"
  /\ result.correct
  /\ streak = 42
  /\ result.streak = 42

\* C14 as claimed: a correct answer adds to the profile trunc(reward_exp *
\* sect_bonus) and the rewards of the achievements it unlocks, nothing else.
C14_Original ==
  [][(result'.op = "check_answer" /\ result'.correct /\ ~player.none) =>
       TotalExp(player') = TotalExp(player)
                           + ApplySectBonus(current_challenge.reward_exp, player.sect_bonus)
                           + SumRewards(player'.unlocked \ player.unlocked, player.sect_bonus)]_vars

\* C14 amended: a correct answer adds trunc(reward_exp * sect_bonus), plus
\* trunc(100 * sect_bonus) when the challenge id was not yet completed, plus
\* trunc(50 * sect_bonus) when the command was not yet mastered, plus the
\* rewards of the achievements it unlocks; the streak plays no part.
C14_ExperienceOfAnswer ==
  [][(result'.op = "check_answer" /\ result'.correct /\ ~player.none) =>
       TotalExp(player') =
         TotalExp(player)
         + ApplySectBonus(current_challenge.reward_exp, player.sect_bonus)
         + (IF Contains(player.challenges_completed, current_challenge.challenge_id)
            THEN 0 ELSE ApplySectBonus(CompleteChallengeExp, player.sect_bonus))
         + (IF Contains(player.kubectl_commands_mastered, current_challenge.expected_command)
            THEN 0 ELSE ApplySectBonus(LearnCommandExp, player.sect_bonus))
         + SumRewards(player'.unlocked \ player.unlocked, player.sect_bonus)]_vars

\* a correct answer that mastered a second command on a challenge id
\* completed before, at a streak above 1
C14_Witness ==
  /\ result.op = "check_answer"
  /\ result.correct
  /\ streak = 3
  /\ Len(player.kubectl_commands_mastered) = 2
  /\ player.kubectl_commands_mastered[2] = current_challenge.expected_command
  /\ Len(player.challenges_completed) = 1
  /\ player.total_correct = 3

\* C15: the result of check_answer lists in unlocked_achievements exactly
\* the achievements (named here by their ids) whose unlocked flag went from
\* false to true while the answer was evaluated.
C15_ReportsUnlocked ==
  [][(/\ result'.op = "check_answer"
      /\ result'.message \in {"correct", "wrong"}
      /\ ~player.none)
     => (/\ SeqToSet(result'.unlocked_achievements) = player'.unlocked \ player.unlocked
         /\ Len(result'.unlocked_achievements)
              = Cardinality(player'.unlocked \ player.unlocked))]_vars


----------------------------------------------------------------------------
(* The operations that require a profile, called with and without one *)

\* GameEngine.get_progress: a report of the profile, the score and the streak
get_progress ==
  /\ IF player.none
     THEN result' = [op |-> "get_progress", raised |-> TRUE]
     ELSE result' = [op |-> "get_progress", raised |-> FALSE, level |-> player.level,
                     experience |-> player.experience, total_score |-> score \div 10,
                     streak |-> streak]
  /\ UNCHANGED <<player, commands, story_chapter, streak, score, current_challenge,
                 current_monster, monster_current_health, files, cli_monster>>

\* the operations of the engine that need a profile
ProfileOperations ==
  {"advance_chapter", "get_progress", "start_combat", "player_attack", "flee_combat"}

\* the monster met in the runs with and without a profile
NoProfileMonsters == {monster \in Monsters : monster.name = "pod_demon"}

\* the engine with a profile, which load_player of a file that does not
\* exist takes away again
NextNoProfile ==
  \/ \E f \in FileNames : load_player(f)
  \/ LevelBudget /\ advance_chapter
  \/ get_progress
  \/ \E monster \in NoProfileMonsters : start_combat(monster)
  \/ \E monster \in NoProfileMonsters : \E answer_correct \in BOOLEAN :
       CombatBudget /\ PlayerAttack(monster, answer_correct)
  \/ \E monster \in NoProfileMonsters : \E flee_success \in BOOLEAN :
       FleeCombat(monster, flee_success)

SpecNoProfile == InitCombat /\ [][NextNoProfile]_vars

\* C16: with no profile loaded, advance_chapter, get_progress, start_combat,
\* player_attack and flee_combat raise for every outcome of the random
\* source and leave the current chapter, the streak, the current monster
\* and monster_current_health unchanged.
C16_NoProfileFails ==
  [][(player.none /\ result'.op \in ProfileOperations)
     => (/\ result'.raised
         /\ UNCHANGED <<story_chapter, streak, current_monster, monster_current_health>>)]_vars


----------------------------------------------------------------------------
(* player.py: Player.load of a file that Player.save did not write *)

\* the keys Player.load insists on
RequiredFields == {"name", "sect", "level", "experience"}

\* the keys Player.load reads of an entry of achievement_objects
AchievementFields ==
  {"type", "id", "name", "description", "condition", "reward", "unlocked"}

\* most entries of achievement_objects in a document
MaxDocEntries == 2

\* most keys absent from one object of a document
MaxAbsent == 1

\* an entry of achievement_objects: the keys it lacks, whether its type is
\* a value of AchievementType, and its unlocked flag
DocEntries ==
  [absent : {S \in SUBSET AchievementFields : Cardinality(S) <= MaxAbsent},
   type_ok : BOOLEAN, unlocked : BOOLEAN]

RECURSIVE SeqsUpTo(_, _)
SeqsUpTo(S, n) ==
  IF n = 0 THEN {<<>>}
  ELSE SeqsUpTo(S, n - 1) \cup {Append(s, x) : s \in {t \in SeqsUpTo(S, n - 1) : Len(t) = n - 1}, x \in S}

\* the files Player.load may find: no file, text that is not JSON, or an
\* object with the fields of a saved profile of which some keys are absent,
\* the sect may be no value of Sect, and achievement_objects is any list
Documents ==
  {NoFile} \cup
  [none : {FALSE}, json_ok : BOOLEAN,
   absent : {S \in SUBSET (RequiredFields \cup {"achievement_objects"}) : Cardinality(S) <= MaxAbsent},
   sect_ok : BOOLEAN,
   data : {to_dict(NewPlayer(sect)) : sect \in Sects},
   entries : SeqsUpTo(DocEntries, MaxDocEntries)]

\* the loop over achievement_objects from entry i on: the exception that
\* ends it, or "ok"
RECURSIVE LoadEntries(_, _)
LoadEntries(entries, i) ==
  IF i > Len(entries) THEN "ok"
  ELSE IF "type" \in entries[i].absent THEN "KeyError"
  ELSE IF ~entries[i].type_ok THEN "ValueError"
  ELSE IF entries[i].absent # {} THEN "KeyError"
  ELSE LoadEntries(entries, i + 1)

\* Player.load: what it returns, or the exception that leaves it
Player_load(doc) ==
  IF doc.none
  THEN [raised |-> FALSE, exception |-> "", ret |-> NoPlayer]
  ELSE IF ~doc.json_ok \/ doc.absent \cap RequiredFields # {} \/ ~doc.sect_ok
  THEN [raised |-> FALSE, exception |-> "", ret |-> NoPlayer]
  ELSE LET pl == load(doc.data)
           outcome == LoadEntries(doc.entries, 1)
       IN IF "achievement_objects" \in doc.absent
          THEN [raised |-> FALSE, exception |-> "", ret |-> _initialize_achievements(pl)]
          ELSE IF outcome = "KeyError"
          THEN [raised |-> TRUE, exception |-> "KeyError", ret |-> NoPlayer]
          ELSE IF outcome = "ValueError"
          THEN [raised |-> FALSE, exception |-> "", ret |-> NoPlayer]
          ELSE [raised |-> FALSE, exception |-> "",
                ret |-> [pl EXCEPT !.unlocked =
                           {Achievements[i].id : i \in {j \in 1..Len(doc.entries) : doc.entries[j].unlocked}}]]

PlayerLoad(f) ==
  /\ result' = [op |-> "Player.load", file |-> f] @@ Player_load(files[f])
  /\ UNCHANGED <<player, commands, story_chapter, streak, score, current_challenge,
                 current_monster, monster_current_health, files, cli_monster>>

\* a new engine beside a save file of any content
InitLoad ==
  \E doc \in Documents :
    /\ player = NoPlayer
    /\ commands = 1..CatalogSize
    /\ story_chapter = "prologue"
    /\ streak = 0
    /\ score = 0
    /\ current_challenge = NoChallenge
    /\ current_monster = NoMonster
    /\ monster_current_health = 0
    /\ files = [f \in FileNames |-> IF f = DefaultSaveFile THEN doc ELSE NoFile]
    /\ cli_monster = NoMonster
    /\ result = [op |-> "init"]

NextLoad == \E f \in FileNames : PlayerLoad(f)

SpecLoad == InitLoad /\ [][NextLoad]_vars

\* the fields of a profile
FullyPopulated(p) == DOMAIN p = DOMAIN NewPlayer(CombatSect)

\* C17: Player.load never raises; for a missing file, malformed JSON, a
\* document missing one of name/sect/level/experience, an unrecognized sect
\* or achievement type, or an achievement_objects entry lacking a field, it
\* returns None or a fully populated profile.
C17_LoadNeverRaises ==
  result.op = "Player.load"
    => /\ ~result.raised
       /\ result.ret.none \/ FullyPopulated(result.ret)


----------------------------------------------------------------------------
(* Saving when the file system may refuse the write *)

\* new_name += '.json' unless the name ends with it, over the names used
WithJson(name) == CASE name = "slot" -> "slot.json"
                    [] name = "player_save" -> "player_save.json"
                    [] name = "backup" -> "backup.json"
                    [] OTHER -> name

\* save_name left out
NoName == ""

\* the save names passed to save_game
SaveNames == {NoName, "slot", "slot.json"}

\* what is left of a file when the write stops after open() emptied it
Truncated == [none |-> FALSE, json_ok |-> FALSE]

\* open() fails and the file is as before, the write stops part way, or
\* the document is written
WriteOutcomes == {"refused", "truncated", "written"}

\* Player.save: the file afterwards and the value returned
Player_save(p, old, outcome) ==
  CASE outcome = "written" -> [file |-> to_dict(p), ret |-> TRUE]
    [] outcome = "truncated" -> [file |-> Truncated, ret |-> FALSE]
    [] OTHER -> [file |-> old, ret |-> FALSE]

\* GameEngine.save_game with every outcome of the write
SaveGame(save_name, outcome) ==
  LET filepath == IF save_name # NoName THEN WithJson(save_name) ELSE DefaultSaveFile
  IN /\ IF player.none
        THEN /\ result' = [op |-> "save_game", ret |-> FALSE, raised |-> FALSE,
                           file |-> filepath, write |-> "none"]
             /\ UNCHANGED files
        ELSE /\ files' = [files EXCEPT ![filepath] = Player_save(player, @, outcome).file]
             /\ result' = [op |-> "save_game", ret |-> TRUE, raised |-> FALSE,
                           file |-> filepath, write |-> outcome]
     /\ UNCHANGED <<player, commands, story_chapter, streak, score, current_challenge,
                    current_monster, monster_current_health, cli_monster>>

\* most answers evaluated between saves
MaxSaveAttempts == 2

\* bound of the model on the answers evaluated between saves
SaveBudget(user_choice) ==
  ~player.none /\ AnswerBudget(user_choice, MaxSaveAttempts, MaxSaveAttempts, 0, MaxSavedLevel)

\* an engine with or without a profile
InitSave == Init \/ InitWithPlayer

NextSave ==
  \/ generate_challenge
  \/ \E user_choice \in Choices :
       SaveBudget(user_choice) /\ CheckAnswer(user_choice)
  \/ \E save_name \in SaveNames : \E outcome \in WriteOutcomes : SaveGame(save_name, outcome)

SpecSave == InitSave /\ [][NextSave]_vars

\* C18: save_game returns True only if the profile was written to the save
\* file; when the write fails or no profile is loaded it returns False; it
\* never raises.
C18_SaveReportsWrite ==
  [][result'.op = "save_game"
     => (/\ ~result'.raised
         /\ result'.ret => (~player.none /\ files'[result'.file] = to_dict(player))
         /\ (player.none \/ result'.write # "written") => ~result'.ret)]_vars


----------------------------------------------------------------------------
(* game_engine.py: renaming a save *)

\* the names in the save directory
DiskNames == FileNames \cup {"backup.json"}

\* the names passed to rename_save, with and without the extension
RenameNames == DiskNames \cup {"slot", "backup"}

\* os.path.exists
Exists(fs, name) == IF name \in DOMAIN fs THEN ~fs[name].none ELSE FALSE

\* os.rename
Rename(fs, old_name, new_name) ==
  [f \in DOMAIN fs |-> IF f = new_name THEN fs[old_name]
                       ELSE IF f = old_name THEN NoFile
                       ELSE fs[f]]

\* a variant that renames without looking at the destination
rename_save_over(fs, old_name, new_name, rename_ok) ==
  LET new_name1 == WithJson(new_name)
  IN IF ~Exists(fs, old_name) THEN [fs |-> fs, ret |-> FALSE]
     ELSE IF rename_ok THEN [fs |-> Rename(fs, old_name, new_name1), ret |-> TRUE]
     ELSE [fs |-> fs, ret |-> FALSE]

\* GameEngine.rename_save; rename_ok is whether os.rename went through
rename_save(fs, old_name, new_name, rename_ok) ==
  LET new_name1 == WithJson(new_name)
  IN IF ~Exists(fs, old_name) THEN [fs |-> fs, ret |-> FALSE]
     ELSE IF Exists(fs, new_name1) THEN [fs |-> fs, ret |-> FALSE]
     ELSE IF rename_ok THEN [fs |-> Rename(fs, old_name, new_name1), ret |-> TRUE]
     ELSE [fs |-> fs, ret |-> FALSE]

RenameSave(old_name, new_name, rename_ok) ==
  /\ files' = rename_save(files, old_name, new_name, rename_ok).fs
  /\ result' = [op |-> "rename_save", old_name |-> old_name,
                new_name |-> WithJson(new_name),
                ret |-> rename_save(files, old_name, new_name, rename_ok).ret]
  /\ UNCHANGED <<player, commands, story_chapter, streak, score, current_challenge,
                 current_monster, monster_current_health, cli_monster>>

\* the engine after initialize_player(name, sect), in a directory that
\* holds the save written by it
InitRename ==
  \E sect \in Sects :
    /\ player = NewPlayer(sect)
    /\ commands = 1..CatalogSize
    /\ story_chapter = "prologue"
    /\ streak = 0
    /\ score = 0
    /\ current_challenge = NoChallenge
    /\ current_monster = NoMonster
    /\ monster_current_health = 0
    /\ files = [f \in DiskNames |-> IF f = DefaultSaveFile THEN to_dict(NewPlayer(sect)) ELSE NoFile]
    /\ cli_monster = NoMonster
    /\ result = [op |-> "initialize_player", sect |-> sect]

NextRename ==
  \/ generate_challenge
  \/ \E user_choice \in Choices : SaveBudget(user_choice) /\ CheckAnswer(user_choice)
  \/ \E f \in DiskNames : save_game(f)
  \/ \E old_name \in RenameNames : \E new_name \in RenameNames : \E rename_ok \in BOOLEAN :
       RenameSave(old_name, new_name, rename_ok)

SpecRename == InitRename /\ [][NextRename]_vars

\* C19 as stated: when the destination (with .json appended if absent)
\* exists or the source does not, rename_save returns False and the files are
\* unchanged; otherwise the source name disappears and the destination
\* appears with the same content.
C19_Original ==
  [][result'.op = "rename_save"
     => IF Exists(files, result'.new_name) \/ ~Exists(files, result'.old_name)
        THEN ~result'.ret /\ UNCHANGED files
        ELSE files' = Rename(files, result'.old_name, result'.new_name)]_vars

\* C19: rename_save never overwrites or loses a save. When the destination
\* (with .json appended if absent) exists or the source does not, it returns
\* False; whenever it returns False the files are unchanged; whenever it
\* returns True exactly the source name disappears and the destination
\* appears with the same content.
C19_RenameSafe ==
  [][result'.op = "rename_save"
     => (/\ (Exists(files, result'.new_name) \/ ~Exists(files, result'.old_name))
               => ~result'.ret
         /\ ~result'.ret => UNCHANGED files
         /\ result'.ret => (/\ files' = Rename(files, result'.old_name, result'.new_name)
                            /\ files'[result'.old_name] = NoFile
                            /\ files'[result'.new_name] = files[result'.old_name]))]_vars

\* a save renamed while another save stays where it is
C19_Witness ==
  /\ result.op = "rename_save"
  /\ result.ret
  /\ result.old_name = "slot.json"
  /\ result.new_name = "backup.json"
  /\ files["slot.json"].none
  /\ ~files["backup.json"].none
  /\ ~files[DefaultSaveFile].none
  /\ files[DefaultSaveFile] # files["backup.json"]


----------------------------------------------------------------------------
(* Properties of learn_command and complete_challenge *)

NoDuplicates(s) == \A i, j \in 1..Len(s) : s[i] = s[j] => i = j

\* C20: learn_command and complete_challenge are idempotent per item. The
\* first call for a command (challenge id) appends it once, credits 50 (100)
\* experience through gain_experience and returns True; a later call with
\* the same item returns False and changes neither the list nor experience
\* nor level; neither list ever holds an item twice.
C20_IdempotentPerItem ==
  [][/\ result'.op = "learn_command"
          => IF Contains(player.kubectl_commands_mastered, result'.command)
             THEN ~result'.ret /\ player' = player
             ELSE /\ result'.ret
                  /\ player'.kubectl_commands_mastered
                       = Append(player.kubectl_commands_mastered, result'.command)
                  /\ TotalExp(player')
                       = TotalExp(player) + ApplySectBonus(LearnCommandExp, player.sect_bonus)
     /\ result'.op = "complete_challenge"
          => IF Contains(player.challenges_completed, result'.challenge_id)
             THEN ~result'.ret /\ player' = player
             ELSE /\ result'.ret
                  /\ player'.challenges_completed
                       = Append(player.challenges_completed, result'.challenge_id)
                  /\ TotalExp(player')
                       = TotalExp(player) + ApplySectBonus(CompleteChallengeExp, player.sect_bonus)
     /\ player'.none \/ (/\ NoDuplicates(player'.kubectl_commands_mastered)
                         /\ NoDuplicates(player'.challenges_completed))]_vars

\* a command learned before is passed to learn_command again, after a
\* second command and a challenge were recorded
C20_Witness ==
  /\ result.op = "learn_command"
  /\ ~result.ret
  /\ player.kubectl_commands_mastered = <<2, 1>>
  /\ result.command = 2
  /\ Len(player.challenges_completed) = 1
  /\ player.level > 1


----------------------------------------------------------------------------
(* The story from the prologue to the final chapter *)

\* reading the story: challenges are drawn and the progress report is
\* read between the advances
NextStory ==
  \/ generate_challenge
  \/ get_progress
  \/ advance_chapter

SpecStory == InitWithPlayer /\ [][NextStory]_vars

ChapterIndex(chapter) == IndexOf(ChapterOrder, chapter)

----------------------------------------------------------------------------
(* Levels through every cultivation tier *)

\* the levels below this one gain experience in amounts; it and the next
\* are the last whose requirement 100 * 1.5^(level-1) stays within the
\* integers of the model
MaxExactLevel == 15

\* the highest level a profile is taken to
MaxCultivationLevel == 105

\* amounts passed to gain_experience below MaxExactLevel
CultivationAmounts == {5000, 20000}

\* gain_experience(self._calculate_required_exp()) by a profile whose sect
\* bonus is 1.0: the loop of level_up subtracts what was added, once, raises
\* the level and updates the tier
gain_required_experience(p) == _update_cultivation([p EXCEPT !.level = @ + 1])

PlayerGainRequiredExperience ==
  /\ ~player.none
  /\ player.sect_bonus = 100
  /\ player' = gain_required_experience(player)
  /\ result' = [op |-> "gain_experience", exp |-> "required", ret |-> TRUE]
  /\ UNCHANGED <<commands, story_chapter, streak, score, current_challenge,
                 current_monster, monster_current_health, files, cli_monster>>

\* the engine after initialize_player(name, Sect of bonus 1.0)
InitCultivation ==
  /\ player = NewPlayer("xuantian")
  /\ commands = 1..CatalogSize
  /\ story_chapter = "prologue"
  /\ streak = 0
  /\ score = 0
  /\ current_challenge = NoChallenge
  /\ current_monster = NoMonster
  /\ monster_current_health = 0
  /\ files = [f \in FileNames |-> IF f = DefaultSaveFile THEN to_dict(NewPlayer("xuantian")) ELSE NoFile]
  /\ cli_monster = NoMonster
  /\ result = [op |-> "initialize_player", sect |-> "xuantian"]

NextCultivation ==
  \/ \E exp \in CultivationAmounts :
       player.level < MaxExactLevel /\ PlayerGainExperience(exp)
  \/ player.level < MaxCultivationLevel /\ PlayerGainRequiredExperience

SpecCultivation == InitCultivation /\ [][NextCultivation]_vars

\* C22: in every state reached from a new profile through gain_experience
\* the cultivation tier is the one of rank min(10, floor((level-1)/10)+1),
\* the highest tier whose level floor rank*10-9 is <= level, also above
\* level 100.
C22_CultivationOfLevel ==
  player.none \/
    (/\ player.cultivation = Min(10, (player.level - 1) \div 10 + 1)
     /\ player.cultivation * 10 - 9 <= player.level
     /\ \A c \in CultivationRanks : c > player.cultivation => player.level < c * 10 - 9)

\* a profile above level 100, in the highest tier
C22_Witness ==
  /\ ~player.none
  /\ player.level = 101
  /\ player.cultivation = 10
  /\ result.op = "gain_experience"


----------------------------------------------------------------------------
(* Achievements of story progress *)

\* the story read with the achievements checked between the advances
NextStoryCheck ==
  \/ generate_challenge
  \/ advance_chapter
  \/ PlayerCheckAndUnlock

SpecStoryCheck == InitWithPlayer /\ [][NextStoryCheck]_vars

\* the ordinal of a chapter of the story: 0 for the prologue, N for
\* chapter_N, 12 for the epilogue; -1 for any other identifier
ChapterOrdinal(chapter) ==
  IF chapter \in ChapterValues THEN ChapterIndex(chapter) - 1 ELSE -1

StoryAchievements ==
  {Achievements[i] : i \in {j \in 1..Len(Achievements) : Achievements[j].type = "story_progress"}}

\* C23: check_and_unlock_achievements unlocks every locked story-progress
\* achievement whose condition is at most the ordinal of the profile's
\* current chapter: once advance_chapter has brought the profile to chapter
\* 3 (6, 9), the next check leaves story_chapter_3 (_6, _9) unlocked.
C23_StoryProgressUnlocks ==
  [][result'.op = "check_and_unlock_achievements"
     => \A a \in StoryAchievements :
          ChapterOrdinal(player.current_chapter) >= a.condition
            => a.id \in player'.unlocked]_vars


----------------------------------------------------------------------------
(* Achievements of commands, challenges and streaks *)

\* most commands learned, challenges completed and answers recorded
MaxAchieveItems == 10

\* a profile that learns commands, completes challenges and records
\* answers one after the other, with the achievements checked at any time
NextAchieve ==
  \/ /\ ~player.none
     /\ Len(player.kubectl_commands_mastered) < MaxAchieveItems
     /\ PlayerLearnCommand(Len(player.kubectl_commands_mastered) + 1)
  \/ /\ ~player.none
     /\ Len(player.challenges_completed) < MaxAchieveItems
     /\ PlayerCompleteChallenge(<<"prologue", Len(player.challenges_completed) + 1>>)
  \/ \E correct \in BOOLEAN :
       /\ ~player.none
       /\ player.total_attempts < MaxAchieveItems
       /\ PlayerUpdateStreak(correct)
  \/ PlayerCheckAndUnlock

SpecAchieve == InitCombat /\ [][NextAchieve]_vars

\* the ids of the locked achievements of commands, challenges and streaks
\* whose condition the profile p meets
Due(p) ==
  {Achievements[i].id : i \in
     {j \in 1..Len(Achievements) :
        /\ Achievements[j].id \notin p.unlocked
        /\ \/ /\ Achievements[j].type = "command_mastery"
              /\ Len(p.kubectl_commands_mastered) >= Achievements[j].condition
           \/ /\ Achievements[j].type = "challenge_completion"
              /\ Len(p.challenges_completed) >= Achievements[j].condition
           \/ /\ Achievements[j].type = "streak_success"
              /\ p.streak >= Achievements[j].condition}}

\* C24: check_and_unlock_achievements unlocks exactly the locked
\* achievements whose predicate holds in the profile at the call (mastered
\* commands, completed challenges or streak >= condition), returns exactly
\* their names, and credits exactly their rewards: the outcome is a
\* function of the profile's state.
C24_UnlocksExactlyDue ==
  [][result'.op = "check_and_unlock_achievements"
     => (/\ player'.unlocked = player.unlocked \cup Due(player)
         /\ SeqToSet(result'.ret) = Due(player)
         /\ Len(result'.ret) = Cardinality(Due(player))
         /\ TotalExp(player') = TotalExp(player) + SumRewards(Due(player), player.sect_bonus))]_vars

\* one check that unlocked the achievement of ten commands and the one of
\* ten challenges together
C24_Witness ==
  /\ result.op = "check_and_unlock_achievements"
  /\ result.ret = <<"cmd_master_10", "challenge_10">>
  /\ {"cmd_master_10", "challenge_10"} \subseteq player.unlocked


----------------------------------------------------------------------------
(* Properties of gain_experience *)

RECURSIVE SumRequiredBetween(_, _)
\* the sum of requiredExp(l) over the levels l from a up to b - 1
SumRequiredBetween(a, b) ==
  IF a >= b THEN 0 ELSE _calculate_required_exp(a) + SumRequiredBetween(a + 1, b)

\* C25: gain_experience(amount) with amount >= 0 returns True exactly when
\* the level after the call is greater than before, and conserves
\* experience: experience before plus trunc(amount * sect_bonus) equals
\* experience after plus the requirements of the levels passed.
C25_GainConserves ==
  [][result'.op = "gain_experience"
     => (/\ result'.ret <=> player'.level > player.level
         /\ player'.level >= player.level
         /\ player.experience + ApplySectBonus(result'.exp, player.sect_bonus)
              = player'.experience + SumRequiredBetween(player.level, player'.level))]_vars

\* one call of gain_experience(1000) on a new profile of a sect with a
\* bonus, which passed four levels
C25_Witness ==
  /\ result.op = "gain_experience"
  /\ result.ret
  /\ result.exp = 1000
  /\ player.sect_bonus = 120
  /\ player.level = 5
  /\ player.experience = 1200 - SumRequiredBetween(1, 5)
  /\ player.kubectl_commands_mastered = <<>>
  /\ player.challenges_completed = <<>>
  /\ player.unlocked = {}


----------------------------------------------------------------------------
(* Properties of the combat loop *)

\* C26: whenever the profile's health reaches 0 during an encounter the
\* encounter ends (Lost): after the turn that brought health to 0, a failed
\* flee included, the loop is left and no further attack or flee turn is
\* taken in that encounter.
C26_ZeroHealthEndsEncounter ==
  [][(/\ ~cli_monster.none
      /\ ~player.none
      /\ player.health > 0
      /\ player'.health = 0)
     => cli_monster'.none]_vars


----------------------------------------------------------------------------
(* The monster templates in combat *)

\* C27 as stated: the monster of the encounter is a template as the story
\* defines it, start_combat sets monster_current_health to its health, and
\* player_attack and flee_combat change only monster_current_health and the
\* profile.
C27_Original ==
  [][/\ current_monster'.none \/ current_monster' \in Monsters
     /\ (result'.op = "start_combat" /\ ~result'.raised)
          => monster_current_health' = current_monster'.health
     /\ result'.op \in {"player_attack", "flee_combat"}
          => UNCHANGED <<commands, story_chapter, streak, score, current_challenge,
                         current_monster, files, cli_monster>>]_vars

\* C27: no combat operation modifies a monster template: the monster of the
\* encounter is always a template as the story defines it, start_combat sets
\* monster_current_health to the template's health whatever happened before,
\* and player_attack and flee_combat change only monster_current_health, the
\* profile, the engine's streak and the reference to the current monster,
\* which they may clear.
C27_TemplateUntouched ==
  [][/\ current_monster'.none \/ current_monster' \in Monsters
     /\ (result'.op = "start_combat" /\ ~result'.raised)
          => (/\ monster_current_health' = current_monster'.health
              /\ current_monster'.health = MonsterByName(current_monster'.name).health)
     /\ result'.op \in {"player_attack", "flee_combat"}
          => (/\ UNCHANGED <<commands, story_chapter, score, current_challenge, files,
                             cli_monster>>
              /\ current_monster' = current_monster \/ current_monster'.none)]_vars

\* an encounter started at full health with the template of an encounter
\* that was fought and left before
C27_Witness ==
  /\ result.op = "start_combat"
  /\ ~current_monster.none
  /\ monster_current_health = current_monster.health
  /\ current_monster.name = "pod_demon"
  /\ ~player.none
  /\ player.health < player.max_health
  /\ TotalExp(player) = ApplySectBonus(current_monster.experience_reward, player.sect_bonus)


----------------------------------------------------------------------------
(* Properties of the answer statistics *)

\* C28: every in-range check_answer with a profile loaded adds exactly 1 to
\* total_attempts, and 1 to total_correct exactly when the answer is
\* correct; an incorrect answer sets the streak to 0, appends the chosen
\* option to wrong_commands and leaves experience, level, mastered commands
\* and completed challenges unchanged.
C28_AnswerStatistics ==
  [][(/\ result'.op = "check_answer"
      /\ result'.message \in {"correct", "wrong"}
      /\ ~player.none)
     => (/\ player'.total_attempts = player.total_attempts + 1
         /\ result'.correct
              <=> (result'.choice - 1 = current_challenge.correct_option_index)
         /\ player'.total_correct
              = player.total_correct + (IF result'.correct THEN 1 ELSE 0)
         /\ ~result'.correct
              => (/\ streak' = 0
                  /\ player'.streak = 0
                  /\ player'.wrong_commands
                       = Append(player.wrong_commands, current_challenge.options[result'.choice])
                  /\ player'.experience = player.experience
                  /\ player'.level = player.level
                  /\ player'.kubectl_commands_mastered = player.kubectl_commands_mastered
                  /\ player'.challenges_completed = player.challenges_completed))]_vars

\* an incorrect answer after correct ones, which broke a streak
C28_Witness ==
  /\ result.op = "check_answer"
  /\ result.message = "wrong"
  /\ streak = 0
  /\ player.streak = 0
  /\ player.total_correct = 2
  /\ player.total_attempts = 3
  /\ Len(player.wrong_commands) = 1
  /\ player.wrong_commands[1] = result.given


----------------------------------------------------------------------------
(* Properties of the record of achievements *)

\* C29: in every reachable state the profile's achievements list holds
\* exactly the ids of the achievements whose unlocked flag is true, each
\* once, and custom_titles holds the title of each of them exactly once.
C29_AchievementRecord ==
  player.none \/
    (/\ SeqToSet(player.achievements) = player.unlocked
     /\ \A id \in player.unlocked :
          /\ Count(player.achievements, id) = 1
          /\ Count(player.custom_titles, AchievementById(id).title) = 1)


----------------------------------------------------------------------------
(* An encounter in which the player keeps attacking *)

\* the level and the streak below which a further encounter is started
MaxAttackLevel == 2

MaxAttackStreak == 2

\* an encounter has started and has reached neither combat_won nor
\* combat_lost
EncounterOn ==
  \/ result.op = "start_combat" /\ ~result.raised
  \/ result.op = "player_attack" /\ result.status = "combat_ongoing"

\* player_attack on the monster of the encounter; attacks counts the calls
\* made since start_combat
AttackTurn(answer_correct) ==
  /\ EncounterOn
  /\ SetEngine(player_attack(Engine, current_monster, answer_correct).e)
  /\ result' = player_attack(Engine, current_monster, answer_correct).res
                  @@ [monster |-> current_monster.name, answer_correct |-> answer_correct,
                      attacks |-> IF result.op = "start_combat" THEN 1 ELSE result.attacks + 1]
  /\ UNCHANGED <<commands, story_chapter, files, cli_monster>>

KeepAttacking == \E answer_correct \in BOOLEAN : AttackTurn(answer_correct)

NextAttack ==
  \/ \E monster \in Monsters :
       /\ ~EncounterOn
       /\ player.level < MaxAttackLevel
       /\ streak < MaxAttackStreak
       /\ start_combat(monster)
  \/ KeepAttacking

\* encounters in which, once started, the player attacks until the end
SpecAttack == InitCombat /\ [][NextAttack]_vars /\ WF_vars(KeepAttacking)

\* C30: an encounter in which the player keeps attacking terminates: while
\* monster_current_health > 0 every player_attack lowers it by at least 1,
\* so after start_combat the encounter reaches combat_won or combat_lost,
\* within at most monster.health calls of player_attack, for any mix of
\* correct and incorrect answers.
C30_AttackingTerminates ==
  /\ [][(result'.op = "player_attack" /\ monster_current_health > 0)
        => (/\ monster_current_health' <= monster_current_health - 1
            /\ result'.attacks <= MonsterByName(result'.monster).health
            /\ result'.attacks
                 <= MonsterByName(result'.monster).health - monster_current_health')]_vars
  /\ (result.op = "start_combat")
       ~> (result.op = "player_attack" /\ result.status \in {"combat_won", "combat_lost"})

\* an encounter lost at the tenth attack, every answer incorrect
C30_Witness ==
  /\ result.op = "player_attack"
  /\ result.status = "combat_lost"
  /\ result.attacks = 10
  /\ result.monster = "deployment_beast"
  /\ monster_current_health = MonsterByName("deployment_beast").health - 10
  /\ player.health = 0

====
